---------------------------- MODULE Spec2Model ----------------------------
(***************************************************************************)
(* Model of the pathology-report extraction scripts extract_info16.py      *)
(* (CSV table output) and extract_info23.py (JSON list output).            *)
(*                                                                         *)
(* Python strings are sequences of one-character strings.  Python values   *)
(* produced by json.loads are tagged tuples:                               *)
(*   <<"str", chars>>  <<"int", n>>  <<"arr", seq>>  <<"obj", map>>        *)
(*   <<"null">>  <<"true">>  <<"false">>                                   *)
(* and <<"nan">> is the float NaN pandas yields for an empty CSV cell.     *)
(* None is a distinguished value.  Input alphabet: the texts fed to the    *)
(* parser hold no fractional numbers, no \b \f \u escapes and no           *)
(* NaN/Infinity literals.                                                  *)
(***************************************************************************)
EXTENDS Integers, Sequences, FiniteSets, TLC

(***************************************************************************)
(* Characters                                                              *)
(***************************************************************************)
LowerSeq ==
    <<"a","b","c","d","e","f","g","h","i","j","k","l","m",
      "n","o","p","q","r","s","t","u","v","w","x","y","z">>

UpperSeq ==
    <<"A","B","C","D","E","F","G","H","I","J","K","L","M",
      "N","O","P","Q","R","S","T","U","V","W","X","Y","Z">>

DigitSeq == <<"0","1","2","3","4","5","6","7","8","9">>

Range(f) == { f[i] : i \in DOMAIN f }

\* str.isspace characters of the model alphabet: str.strip(), regex \s and
\* the json module's whitespace all agree on these four.
WS == {" ", "\n", "\t", "\r"}

\* regex \w
WordChars == Range(LowerSeq) \cup Range(UpperSeq) \cup Range(DigitSeq) \cup {"_"}

\* characters json's strict string scanner rejects (ord < 0x20)
ControlChars == {"\n", "\t", "\r"}

DigitVal(c) == (CHOOSE i \in 1..10 : DigitSeq[i] = c) - 1

LowerChar(c) ==
    IF c \in Range(UpperSeq)
    THEN LowerSeq[CHOOSE i \in 1..26 : UpperSeq[i] = c]
    ELSE c

\* str.lower()
Lower(s) == [i \in 1..Len(s) |-> LowerChar(s[i])]

\* s[i-1:j] for 1-based inclusive indices i..j: a slice clamps to the string
Slice(s, i, j) ==
    LET lo == IF i < 1 THEN 1 ELSE i
        hi == IF j > Len(s) THEN Len(s) ELSE j
    IN  IF hi < lo THEN <<>> ELSE SubSeq(s, lo, hi)

\* str.count(c) for a one-character c
Count(s, c) == Cardinality({ i \in 1..Len(s) : s[i] = c })

\* str.startswith(p)
StartsWith(s, p) == Slice(s, 1, Len(p)) = p

\* `p in s` for strings
Contains(s, p) ==
    \E i \in 1..(Len(s) - Len(p) + 1) : Slice(s, i, i + Len(p) - 1) = p

\* the least element of a non-empty set of integers
Min(S) == CHOOSE i \in S : \A j \in S : i <= j

\* the end of the run, from i on, of characters that are in the set: the
\* first index >= i that is past the end or holds a character outside it
\* (searched in windows of w, 2w, 4w, ... characters)
RECURSIVE SkipWithin(_, _, _, _)
SkipWithin(s, i, set, w) ==
    LET out == { j \in i..(i + w - 1) : j <= Len(s) /\ s[j] \notin set }
    IN  IF out # {} THEN Min(out)
        ELSE IF i + w > Len(s) THEN Len(s) + 1
        ELSE SkipWithin(s, i + w, set, 2 * w)

SkipIn(s, i, set) == IF i > Len(s) THEN i ELSE SkipWithin(s, i, set, 2)

\* the first index >= i that holds a character of the set, or past the end
RECURSIVE FindWithin(_, _, _, _)
FindWithin(s, i, set, w) ==
    LET hit == { j \in i..(i + w - 1) : j <= Len(s) /\ s[j] \in set }
    IN  IF hit # {} THEN Min(hit)
        ELSE IF i + w > Len(s) THEN Len(s) + 1
        ELSE FindWithin(s, i + w, set, 2 * w)

FindIn(s, i, set) == IF i > Len(s) THEN i ELSE FindWithin(s, i, set, 2)

\* first index >= i that is past the end or not whitespace (WHITESPACE.match)
SkipWS(s, i) == SkipIn(s, i, WS)

\* the character at i, or "" past the end (s[i:i+1])
At(s, i) == IF i >= 1 /\ i <= Len(s) THEN s[i] ELSE ""

\* s[::-1]
Reverse(s) == [i \in 1..Len(s) |-> s[Len(s) + 1 - i]]

\* str.strip(): the whitespace at both ends is dropped
Strip(s) == Slice(s, SkipWS(s, 1), Len(s) + 1 - SkipWS(Reverse(s), 1))

(***************************************************************************)
(* json.loads: the strict decoder of the standard library                  *)
(***************************************************************************)
None == <<"None">>

JStr(cs)  == <<"str", cs>>
JInt(n)   == <<"int", n>>
JArr(xs)  == <<"arr", xs>>
JObj(m)   == <<"obj", m>>

IsStr(v)  == v[1] = "str"
IsInt(v)  == v[1] = "int"
IsList(v) == v[1] = "arr"
IsDict(v) == v[1] = "obj"

EmptyMap == [k \in {} |-> None]

\* dict[k] = v: a later pair with the same key replaces the earlier one
MapPut(m, k, v) == [x \in (DOMAIN m) \cup {k} |-> IF x = k THEN v ELSE m[x]]

Fail == [ok |-> FALSE, v |-> None, i |-> 0]
Ok(v, i) == [ok |-> TRUE, v |-> v, i |-> i]

\* the character a backslash escape stands for, or "" for an escape outside
\* the model alphabet (json.decoder.BACKSLASH)
Unescape(e) ==
    IF e = "\"" THEN "\""
    ELSE IF e = "\\" THEN "\\"
    ELSE IF e = "/" THEN "/"
    ELSE IF e = "n" THEN "\n"
    ELSE IF e = "t" THEN "\t"
    ELSE IF e = "r" THEN "\r"
    ELSE ""

RECURSIVE ScanString(_, _, _), ScanChunk(_, _, _, _)

\* json.decoder.py_scanstring(s, end, strict=True); i is past the opening quote
\* (STRINGCHUNK takes the run up to the next quote, backslash or control
\* character in one step)
ScanString(s, i, acc) ==
    ScanChunk(s, i, acc, FindIn(s, i, {"\"", "\\"} \cup ControlChars))

\* one turn of py_scanstring's loop: the chunk s[i..j-1] and its terminator
\* at j
ScanChunk(s, i, acc, j) ==
    IF j > Len(s) THEN Fail
    ELSE IF s[j] = "\"" THEN Ok(acc \o Slice(s, i, j - 1), j + 1)
    ELSE IF s[j] \in ControlChars THEN Fail
    ELSE IF Unescape(At(s, j + 1)) = "" THEN Fail
    ELSE ScanString(s, j + 2,
                    Append(acc \o Slice(s, i, j - 1), Unescape(At(s, j + 1))))

\* the digits of NUMBER_RE's [1-9]\d* part
RECURSIVE ScanDigits(_, _, _)
ScanDigits(s, i, n) ==
    IF At(s, i) \in Range(DigitSeq)
    THEN ScanDigits(s, i + 1, 10 * n + DigitVal(s[i]))
    ELSE Ok(n, i)

\* the int of a match of NUMBER_RE: r = [v, i] are its magnitude and end
SignedInt(neg, r) == Ok(JInt(IF neg THEN 0 - r.v ELSE r.v), r.i)

\* NUMBER_RE = (-?(?:0|[1-9]\d*)) from the first digit at j on
ScanMagnitude(s, j, neg) ==
    IF At(s, j) \notin Range(DigitSeq) THEN Fail
    ELSE IF s[j] = "0" THEN SignedInt(neg, Ok(0, j + 1))
    ELSE SignedInt(neg, ScanDigits(s, j, 0))

\* NUMBER_RE with no fraction and no exponent
ScanNumber(s, i) ==
    IF At(s, i) = "-" THEN ScanMagnitude(s, i + 1, TRUE)
    ELSE ScanMagnitude(s, i, FALSE)

\* a scanned string as a value
StrValue(r) == IF r.ok THEN Ok(JStr(r.v), r.i) ELSE Fail

RECURSIVE ScanOnce(_, _), JSONObject(_, _), JSONArray(_, _),
          JSONObjectPairs(_, _, _), ObjectColon(_, _, _), ObjectValue(_, _, _, _),
          ObjectPut(_, _, _, _), ObjectNext(_, _, _), ObjectNextKey(_, _, _),
          JSONArrayItems(_, _, _), ArrayPut(_, _, _), ArrayNext(_, _, _)

\* json.scanner.py_make_scanner._scan_once
ScanOnce(s, i) ==
    IF At(s, i) = "" THEN Fail
    ELSE IF s[i] = "\"" THEN StrValue(ScanString(s, i + 1, <<>>))
    ELSE IF s[i] = "{" THEN
        JSONObject(s, IF At(s, i + 1) \in WS THEN SkipWS(s, i + 1) ELSE i + 1)
    ELSE IF s[i] = "[" THEN JSONArray(s, SkipWS(s, i + 1))
    ELSE IF s[i] = "n" /\ Slice(s, i, i + 3) = <<"n","u","l","l">>
        THEN Ok(<<"null">>, i + 4)
    ELSE IF s[i] = "t" /\ Slice(s, i, i + 3) = <<"t","r","u","e">>
        THEN Ok(<<"true">>, i + 4)
    ELSE IF s[i] = "f" /\ Slice(s, i, i + 4) = <<"f","a","l","s","e">>
        THEN Ok(<<"false">>, i + 5)
    ELSE ScanNumber(s, i)

\* json.decoder.JSONObject up to the first property name, which is at j
JSONObject(s, j) ==
    IF At(s, j) = "}" THEN Ok(JObj(EmptyMap), j + 1)
    ELSE IF At(s, j) # "\"" THEN Fail
    ELSE JSONObjectPairs(s, j + 1, EmptyMap)

\* JSONObject's loop; i is past the opening quote of a key
JSONObjectPairs(s, i, m) == ObjectColon(s, m, ScanString(s, i, <<>>))

\* the colon after the key k
ObjectColon(s, m, k) ==
    IF ~k.ok THEN Fail
    ELSE ObjectValue(s, m, k.v, IF At(s, k.i) # ":" THEN SkipWS(s, k.i) ELSE k.i)

\* the value after the colon at c
ObjectValue(s, m, key, c) ==
    IF At(s, c) # ":" THEN Fail
    ELSE ObjectPut(s, m, key, ScanOnce(s, SkipWS(s, c + 1)))

\* the pair is stored: a later pair with the same key replaces the earlier
ObjectPut(s, m, key, r) ==
    IF ~r.ok THEN Fail
    ELSE ObjectNext(s, MapPut(m, key, r.v), SkipWS(s, r.i))

\* the closing brace or the comma at e
ObjectNext(s, m, e) ==
    IF At(s, e) = "}" THEN Ok(JObj(m), e + 1)
    ELSE IF At(s, e) # "," THEN Fail
    ELSE ObjectNextKey(s, m, SkipWS(s, e + 1))

\* the next key, whose opening quote is at q
ObjectNextKey(s, m, q) ==
    IF At(s, q) # "\"" THEN Fail ELSE JSONObjectPairs(s, q + 1, m)

\* json.decoder.JSONArray up to the first value, which is at j
JSONArray(s, j) ==
    IF At(s, j) = "]" THEN Ok(JArr(<<>>), j + 1)
    ELSE JSONArrayItems(s, j, <<>>)

\* JSONArray's loop; i is at the first character of a value
JSONArrayItems(s, i, xs) == ArrayPut(s, xs, ScanOnce(s, i))

\* the value is appended
ArrayPut(s, xs, r) ==
    IF ~r.ok THEN Fail
    ELSE ArrayNext(s, Append(xs, r.v), SkipWS(s, r.i))

\* the closing bracket or the comma at e
ArrayNext(s, xs, e) ==
    IF At(s, e) = "]" THEN Ok(JArr(xs), e + 1)
    ELSE IF At(s, e) # "," THEN Fail
    ELSE JSONArrayItems(s, SkipWS(s, e + 1), xs)

\* JSONDecoder.decode: the document must end after the value, whitespace
\* aside ("Extra data" otherwise)
DecodeEnd(s, r) ==
    IF ~r.ok THEN [ok |-> FALSE, v |-> None]
    ELSE IF SkipWS(s, r.i) # Len(s) + 1 THEN [ok |-> FALSE, v |-> None]
    ELSE [ok |-> TRUE, v |-> r.v]

\* json.loads(s): [ok, v]; ok = FALSE stands for json.JSONDecodeError
json_loads(s) == DecodeEnd(s, ScanOnce(s, SkipWS(s, 1)))

(***************************************************************************)
(* The regular expressions of extract_info16.py                            *)
(***************************************************************************)
\* re.search(r"\{.*\}", content, re.DOTALL): the span from the first "{" to
\* the last "}" after it, or None
SearchObject(content) ==
    LET opens  == { i \in 1..Len(content) : content[i] = "{" }
    IN  IF opens = {} THEN None
        ELSE LET lo == CHOOSE i \in opens : \A j \in opens : i <= j
                 closes == { i \in (lo + 1)..Len(content) : content[i] = "}" }
             IN  IF closes = {} THEN None
                 ELSE LET hi == CHOOSE i \in closes : \A j \in closes : j <= i
                      IN  SubSeq(content, lo, hi)

\* re.sub(r",\s*([\]}])", r"\1", s) from position i on: each comma followed
\* by optional whitespace and a closing bracket is replaced by the bracket,
\* leftmost match first
RECURSIVE SubTrailingComma(_, _)
SubTrailingComma(s, i) ==
    LET hits == { j \in i..Len(s) :
                    s[j] = "," /\ At(s, SkipWS(s, j + 1)) \in {"]", "}"} }
    IN  IF hits = {} THEN Slice(s, i, Len(s))
        ELSE LET j == Min(hits)
                 b == SkipWS(s, j + 1)
             IN  Slice(s, i, j - 1) \o <<s[b]>> \o SubTrailingComma(s, b + 1)

\* a match of "\w+": at i; the index past the colon, or 0
MatchKey(s, i) ==
    LET w == SkipIn(s, i + 1, WordChars)
    IN  IF At(s, i) = "\"" /\ w > i + 1 /\ At(s, w) = "\"" /\ At(s, w + 1) = ":"
        THEN w + 2 ELSE 0

\* a match of ("\w+":\s?"[^"]+)"\s*("\w+":) at i:
\* [ok, g1end (last index of group 1), g2 (first index of group 2), end]
MatchMissingComma(s, i) ==
    LET k1 == MatchKey(s, i)
        v0 == IF At(s, k1) \in WS THEN k1 + 1 ELSE k1
        v1 == FindIn(s, v0 + 1, {"\""})
        g2 == SkipWS(s, v1 + 1)
        k2 == MatchKey(s, g2)
    IN  IF k1 # 0 /\ At(s, v0) = "\"" /\ v1 > v0 + 1 /\ At(s, v1) = "\"" /\ k2 # 0
        THEN [ok |-> TRUE, g1end |-> v1 - 1, g2 |-> g2, end |-> k2]
        ELSE [ok |-> FALSE, g1end |-> 0, g2 |-> 0, end |-> 0]

\* re.sub(r'("\w+":\s?"[^"]+)"\s*("\w+":)', r'\1,\2', s) from position i on
RECURSIVE SubMissingComma(_, _)
SubMissingComma(s, i) ==
    LET hits == { j \in i..Len(s) : MatchMissingComma(s, j).ok }
    IN  IF hits = {} THEN Slice(s, i, Len(s))
        ELSE LET j == Min(hits)
                 m == MatchMissingComma(s, j)
             IN  Slice(s, i, m.g1end) \o <<",">> \o Slice(s, m.g2, m.end - 1)
                   \o SubMissingComma(s, m.end)

(***************************************************************************)
(* String literals of the scripts                                          *)
(***************************************************************************)
S_specimens == <<"s","p","e","c","i","m","e","n","s">>
S_study_id == <<"s","t","u","d","y","_","i","d">>
S_specimen_name == <<"s","p","e","c","i","m","e","n","_","n","a","m","e">>
S_gleason_score == <<"g","l","e","a","s","o","n","_","s","c","o","r","e">>
S_gleason_pattern == <<"g","l","e","a","s","o","n","_","p","a","t","t","e","r","n">>
S_num_cores == <<"n","u","m","_","c","o","r","e","s">>
S_percent_specimen == <<"p","e","r","c","e","n","t","_","s","p","e","c","i","m","e","n">>
S_features == <<"f","e","a","t","u","r","e","s">>
S_comment == <<"c","o","m","m","e","n","t">>
S_HGPIN == <<"H","G","P","I","N">>
S_ASAP == <<"A","S","A","P">>
S_ATYP == <<"A","T","Y","P">>
S_INF == <<"I","N","F">>
S_ADC == <<"A","D","C">>
S_PNI == <<"P","N","I">>
S_Benign == <<"B","e","n","i","g","n">>
S_benign == <<"b","e","n","i","g","n">>
S_unknown == <<"u","n","k","n","o","w","n">>
S_Specimen_Unknown == <<"S","p","e","c","i","m","e","n"," ","U","n","k","n","o","w","n">>
S_Unknown_Specimen == <<"U","n","k","n","o","w","n"," ","S","p","e","c","i","m","e","n">>
S_No_GS == <<"N","o"," ","G","S">>
S_No_GP == <<"N","o"," ","G","P">>
S_No_C == <<"N","o"," ","#","C">>
S_No_comment == <<"N","o"," ","c","o","m","m","e","n","t">>
S_number_of_specimens == <<"n","u","m","b","e","r","_","o","f","_","s","p","e","c","i","m","e","n","s">>
S_specimen_names == <<"s","p","e","c","i","m","e","n","_","n","a","m","e","s">>
\* the backquote character, which a TLA+ string literal cannot hold
BQ == "BQ"

S_fence == <<BQ, BQ, BQ>>
S_subject_ == <<"s","u","b","j","e","c","t","_">>

\* the eleven per-specimen column prefixes of extract_info16.py, in order:
\* Specimen_ GS_ GP_ #C_ %Spec_ HGPIN_ ASAP_ ATYP_ INF_ ADC_ Comment_
ColumnPrefixes ==
    << <<"S","p","e","c","i","m","e","n","_">>,
       <<"G","S","_">>,
       <<"G","P","_">>,
       <<"#","C","_">>,
       <<"%","S","p","e","c","_">>,
       <<"H","G","P","I","N","_">>,
       <<"A","S","A","P","_">>,
       <<"A","T","Y","P","_">>,
       <<"I","N","F","_">>,
       <<"A","D","C","_">>,
       <<"C","o","m","m","e","n","t","_">> >>

\* the feature flags read by the flatten loop of extract_info16.py
FeatureKeys16 == <<S_HGPIN, S_ASAP, S_ATYP, S_INF, S_ADC>>

\* the feature flags of the default entry of extract_info23.py
FeatureKeys23 == <<S_HGPIN, S_ASAP, S_ATYP, S_INF, S_ADC, S_PNI, S_Benign>>

(***************************************************************************)
(* Python helpers                                                          *)
(***************************************************************************)
IsNone(v) == v[1] = "None"

\* float("nan"): an empty CSV cell as pandas reads it
NaN == <<"nan">>

\* d.get(k, default) on a dict value
DictGet(d, k, default) == IF k \in DOMAIN d[2] THEN d[2][k] ELSE default

\* str(n) for n >= 0
RECURSIVE IntToStr(_)
IntToStr(n) ==
    IF n < 10 THEN <<DigitSeq[n + 1]>>
    ELSE IntToStr(n \div 10) \o <<DigitSeq[(n % 10) + 1]>>

\* str.splitlines() over the line breaks "\n", "\r" and "\r\n"
RECURSIVE SplitLines(_)
SplitLines(s) ==
    LET brk == { i \in 1..Len(s) : s[i] \in {"\n", "\r"} }
    IN  IF s = <<>> THEN <<>>
        ELSE IF brk = {} THEN <<s>>
        ELSE LET b == CHOOSE i \in brk : \A j \in brk : i <= j
                 n == IF s[b] = "\r" /\ At(s, b + 1) = "\n" THEN b + 2 ELSE b + 1
             IN  <<Slice(s, 1, b - 1)>> \o SplitLines(Slice(s, n, Len(s)))

\* "\n".join(lines)
RECURSIVE JoinLines(_)
JoinLines(lines) ==
    IF lines = <<>> THEN <<>>
    ELSE IF Len(lines) = 1 THEN lines[1]
    ELSE lines[1] \o <<"\n">> \o JoinLines(Tail(lines))

\* re.search(r'\d+', content): the first run of digits as an int, or None
FirstNumber(content) ==
    LET ds == { i \in 1..Len(content) : content[i] \in Range(DigitSeq) }
    IN  IF ds = {} THEN None
        ELSE LET lo == CHOOSE i \in ds : \A j \in ds : i <= j
             IN  JInt(ScanDigits(content, lo, 0).v)

(***************************************************************************)
(* extract_info16.py: functions                                            *)
(***************************************************************************)
\* the bracket-balance step: one "}" and then one "]" are appended when the
\* opening brackets outnumber the closing ones
BalanceBrackets(s) ==
    LET s1 == IF Count(s, "{") > Count(s, "}") THEN Append(s, "}") ELSE s
    IN  IF Count(s1, "[") > Count(s1, "]") THEN Append(s1, "]") ELSE s1

\* fix_malformed_json(json_str): the parsed value, or None on JSONDecodeError
fix_malformed_json(json_str) ==
    LET r == json_loads(SubMissingComma(BalanceBrackets(Strip(json_str)), 1))
    IN  IF r.ok THEN r.v ELSE None

\* get_number_of_specimens(report_text) given what the backend process did:
\* run = [rc, stdout]; a non-zero exit status raises CalledProcessError
get_number_of_specimens16(run) ==
    IF run.rc # 0 THEN 0
    ELSE LET n == FirstNumber(Strip(run.stdout))
         IN  IF IsNone(n) THEN 0 ELSE n[2]

\* lines 109-126 of extract_info_from_report: content to the list under
\* "specimens", or None
ParseSpecimens16(content) ==
    LET json_text == SearchObject(content)
    IN  IF IsNone(json_text) THEN None
        ELSE LET r == json_loads(SubTrailingComma(json_text, 1))
             IN  IF ~r.ok THEN None
                 ELSE IF S_specimens \in DOMAIN r.v[2] /\ IsList(r.v[2][S_specimens])
                      THEN r.v[2][S_specimens]
                      ELSE None

\* extract_info_from_report(report_text, accession_number, number_of_specimens)
extract_info_from_report16(run) ==
    IF run.rc # 0 THEN None ELSE ParseSpecimens16(Strip(run.stdout))

(***************************************************************************)
(* extract_info23.py: functions                                            *)
(***************************************************************************)
\* clean_json_output(output)
clean_json_output(output) ==
    LET out == Strip(output)
    IN  IF StartsWith(out, S_fence)
        THEN LET lines  == SplitLines(out)
                 lines1 == IF StartsWith(lines[1], S_fence) THEN Tail(lines) ELSE lines
                 lines2 == IF lines1 # <<>> /\ StartsWith(lines1[Len(lines1)], S_fence)
                           THEN SubSeq(lines1, 1, Len(lines1) - 1)
                           ELSE lines1
             IN  Strip(JoinLines(lines2))
        ELSE out

\* get_number_of_specimens(report_text): the pair (number, names); any
\* exception gives (1, []), the AttributeError of .get on a reply that is no
\* object included
get_number_of_specimens23(run) ==
    LET r == json_loads(clean_json_output(Strip(run.stdout)))
    IN  IF run.rc # 0 \/ ~r.ok \/ ~IsDict(r.v) THEN <<JInt(1), JArr(<<>>)>>
        ELSE <<DictGet(r.v, S_number_of_specimens, JInt(1)),
               DictGet(r.v, S_specimen_names, JArr(<<>>))>>

\* extract_info_from_report(...): the list under "specimens", or None
extract_info_from_report23(run) ==
    LET r == json_loads(clean_json_output(Strip(run.stdout)))
    IN  IF run.rc # 0 \/ ~r.ok THEN None
        ELSE IF IsDict(r.v) /\ S_specimens \in DOMAIN r.v[2] /\ IsList(r.v[2][S_specimens])
             THEN r.v[2][S_specimens]
             ELSE None

(***************************************************************************)
(* Inputs: the input table and what the backend process prints             *)
(***************************************************************************)
\* the largest number of data rows of input.csv that is explored
MaxRows == 2

\* one complete specimen:
\*   {"specimens": [{"study_id": "S7", "specimen_name": "Right Apex", "gleason_score": "7", "gleason_pattern": "3+4", "num_cores": "3/7", "percent_specimen": "<5%", "features": {"HGPIN": 0, "ASAP": 1, "ATYP": 0, "INF": 0, "ADC": 0}, "comment": "focal"}]}
T_one ==
    <<"{","\"","s","p","e","c","i","m","e","n","s","\"",":"," ","[","{","\"",
      "s","t","u","d","y","_","i","d","\"",":"," ","\"","S","7","\"",","," ",
      "\"","s","p","e","c","i","m","e","n","_","n","a","m","e","\"",":"," ",
      "\"","R","i","g","h","t"," ","A","p","e","x","\"",","," ","\"","g","l",
      "e","a","s","o","n","_","s","c","o","r","e","\"",":"," ","\"","7","\"",
      ","," ","\"","g","l","e","a","s","o","n","_","p","a","t","t","e","r",
      "n","\"",":"," ","\"","3","+","4","\"",","," ","\"","n","u","m","_","c",
      "o","r","e","s","\"",":"," ","\"","3","/","7","\"",","," ","\"","p","e",
      "r","c","e","n","t","_","s","p","e","c","i","m","e","n","\"",":"," ",
      "\"","<","5","%","\"",","," ","\"","f","e","a","t","u","r","e","s","\"",
      ":"," ","{","\"","H","G","P","I","N","\"",":"," ","0",","," ","\"","A",
      "S","A","P","\"",":"," ","1",","," ","\"","A","T","Y","P","\"",":"," ",
      "0",","," ","\"","I","N","F","\"",":"," ","0",","," ","\"","A","D","C",
      "\"",":"," ","0","}",","," ","\"","c","o","m","m","e","n","t","\"",":",
      " ","\"","f","o","c","a","l","\"","}","]","}">>

\* two specimens, the second with few fields:
\*   {"specimens": [{"study_id": "S7", "specimen_name": "Left Base", "gleason_score": "6", "comment": "small"}, {"study_id": "S7", "features": {"INF": 1}, "comment": "none"}]}
T_two ==
    <<"{","\"","s","p","e","c","i","m","e","n","s","\"",":"," ","[","{","\"",
      "s","t","u","d","y","_","i","d","\"",":"," ","\"","S","7","\"",","," ",
      "\"","s","p","e","c","i","m","e","n","_","n","a","m","e","\"",":"," ",
      "\"","L","e","f","t"," ","B","a","s","e","\"",","," ","\"","g","l","e",
      "a","s","o","n","_","s","c","o","r","e","\"",":"," ","\"","6","\"",",",
      " ","\"","c","o","m","m","e","n","t","\"",":"," ","\"","s","m","a","l",
      "l","\"","}",","," ","{","\"","s","t","u","d","y","_","i","d","\"",":",
      " ","\"","S","7","\"",","," ","\"","f","e","a","t","u","r","e","s","\"",
      ":"," ","{","\"","I","N","F","\"",":"," ","1","}",","," ","\"","c","o",
      "m","m","e","n","t","\"",":"," ","\"","n","o","n","e","\"","}","]","}">>

\* a well-formed reply whose specimens list is empty:
\*   {"specimens": []}
T_empty_list ==
    <<"{","\"","s","p","e","c","i","m","e","n","s","\"",":"," ","[","]","}">>

\* an empty reply:
\*   
T_empty ==
    <<>>

\* a reply cut off before its closing brackets:
\*   {"specimens": [{"gleason_score": "7"
T_truncated ==
    <<"{","\"","s","p","e","c","i","m","e","n","s","\"",":"," ","[","{","\"",
      "g","l","e","a","s","o","n","_","s","c","o","r","e","\"",":"," ","\"",
      "7","\"">>

\* a specimen without comment:
\*   {"specimens": [{"study_id": "S7", "gleason_score": "8"}]}
T_no_comment ==
    <<"{","\"","s","p","e","c","i","m","e","n","s","\"",":"," ","[","{","\"",
      "s","t","u","d","y","_","i","d","\"",":"," ","\"","S","7","\"",","," ",
      "\"","g","l","e","a","s","o","n","_","s","c","o","r","e","\"",":"," ",
      "\"","8","\"","}","]","}">>

\* the same specimen with prose around the object and trailing commas in it:
\*   Here: {"specimens": [{"study_id": "S7", "gleason_score": "8",},]} ok
T_prose ==
    <<"H","e","r","e",":"," ","{","\"","s","p","e","c","i","m","e","n","s",
      "\"",":"," ","[","{","\"","s","t","u","d","y","_","i","d","\"",":"," ",
      "\"","S","7","\"",","," ","\"","g","l","e","a","s","o","n","_","s","c",
      "o","r","e","\"",":"," ","\"","8","\"",",","}",",","]","}"," ","o","k">>

\* a specimen without study_id:
\*   {"specimens": [{"gleason_score": "7", "comment": "c"}]}
T_no_study_id ==
    <<"{","\"","s","p","e","c","i","m","e","n","s","\"",":"," ","[","{","\"",
      "g","l","e","a","s","o","n","_","s","c","o","r","e","\"",":"," ","\"",
      "7","\"",","," ","\"","c","o","m","m","e","n","t","\"",":"," ","\"","c",
      "\"","}","]","}">>

\* a specimens list whose element is a string:
\*   {"specimens": ["none"]}
T_not_mapping ==
    <<"{","\"","s","p","e","c","i","m","e","n","s","\"",":"," ","[","\"","n",
      "o","n","e","\"","]","}">>

\* specimens is not a list:
\*   {"specimens": "none"}
T_wrong_shape ==
    <<"{","\"","s","p","e","c","i","m","e","n","s","\"",":"," ","\"","n","o",
      "n","e","\"","}">>

\* braces around text that is not JSON:
\*   {specimens}
T_unparseable ==
    <<"{","s","p","e","c","i","m","e","n","s","}">>

\* features is a string:
\*   {"specimens": [{"study_id": "S7", "features": "none", "comment": "c"}]}
T_features_str ==
    <<"{","\"","s","p","e","c","i","m","e","n","s","\"",":"," ","[","{","\"",
      "s","t","u","d","y","_","i","d","\"",":"," ","\"","S","7","\"",","," ",
      "\"","f","e","a","t","u","r","e","s","\"",":"," ","\"","n","o","n","e",
      "\"",","," ","\"","c","o","m","m","e","n","t","\"",":"," ","\"","c",
      "\"","}","]","}">>

\* the specimen without study_id inside a Markdown code fence:
\*   ```json
\*   {"specimens": [{"gleason_score": "7", "comment": "c"}]}
\*   ```
T_fenced ==
    <<BQ,BQ,BQ,"j","s","o","n","\n","{","\"","s","p","e","c","i","m","e","n",
      "s","\"",":"," ","[","{","\"","g","l","e","a","s","o","n","_","s","c",
      "o","r","e","\"",":"," ","\"","7","\"",","," ","\"","c","o","m","m","e",
      "n","t","\"",":"," ","\"","c","\"","}","]","}","\n",BQ,BQ,BQ>>

\* a count in a sentence:
\*   There are 2 specimens
T_count_two ==
    <<"T","h","e","r","e"," ","a","r","e"," ","2"," ","s","p","e","c","i","m",
      "e","n","s">>

\* no digits:
\*   none
T_count_none ==
    <<"n","o","n","e">>

\* a count and one name:
\*   {"number_of_specimens": 1, "specimen_names": ["Right Apex"]}
T_names_one ==
    <<"{","\"","n","u","m","b","e","r","_","o","f","_","s","p","e","c","i",
      "m","e","n","s","\"",":"," ","1",","," ","\"","s","p","e","c","i","m",
      "e","n","_","n","a","m","e","s","\"",":"," ","[","\"","R","i","g","h",
      "t"," ","A","p","e","x","\"","]","}">>

\* specimen_names is a number:
\*   {"number_of_specimens": 1, "specimen_names": 3}
T_names_int ==
    <<"{","\"","n","u","m","b","e","r","_","o","f","_","s","p","e","c","i",
      "m","e","n","s","\"",":"," ","1",","," ","\"","s","p","e","c","i","m",
      "e","n","_","n","a","m","e","s","\"",":"," ","3","}">>

\* the longest comment kept (line 187 of extract_info23.py)
CommentCap == 200

\* a comment five characters longer than that, no two neighbours alike:
\*   1234567890123...
LongComment == [i \in 1..CommentCap + 5 |-> DigitSeq[(i % 10) + 1]]

\* one specimen with that comment:
\*   {"specimens": [{"comment": "1234567890123..."}]}
T_long_comment ==
    <<"{","\"","s","p","e","c","i","m","e","n","s","\"",":"," ","[","{","\"",
      "c","o","m","m","e","n","t","\"",":"," ","\"">> \o LongComment \o
    <<"\"","}","]","}">>

\* strict JSON whose only specimen is a string holding a comma and a brace:
\*   {"specimens": [",}"]}
T_comma_brace ==
    <<"{","\"","s","p","e","c","i","m","e","n","s","\"",":"," ","[","\"",",",
      "}","\"","]","}">>

\* a report with the word in capitals:
\*   BENIGN prostatic tissue.
R_benign ==
    <<"B","E","N","I","G","N"," ","p","r","o","s","t","a","t","i","c"," ","t",
      "i","s","s","u","e",".">>

\* a report without the word:
\*   Adenocarcinoma 3+4.
R_cancer ==
    <<"A","d","e","n","o","c","a","r","c","i","n","o","m","a"," ","3","+","4",
      ".">>

\* the accession number of row i
Accession(i) == JStr(<<"A">> \o IntToStr(i))

\* what row i of the table may hold; NaN is an empty cell, explored in the
\* first row
RowChoices(i) ==
    [accession_number : IF i = 1 THEN {Accession(1), NaN} ELSE {Accession(i)},
     report : {R_benign, R_cancer}]

RowsOfLen(n) ==
    { r \in [1..n -> UNION { RowChoices(i) : i \in 1..n }] :
        \A i \in 1..n : r[i] \in RowChoices(i) }

\* input.csv: missing, empty, malformed, or a table with its columns and rows
InputFiles ==
    { [status |-> s, columns |-> {}, rows |-> <<>>] :
        s \in {"missing", "empty", "unparseable"} }
    \cup
    { [status |-> "ok", columns |-> c, rows |-> <<>>] :
        c \in {{"report"}, {"accession_number"}, {"report", "accession_number"}} }
    \cup
    { [status |-> "ok", columns |-> {"report", "accession_number"}, rows |-> r] :
        r \in UNION { RowsOfLen(n) : n \in 1..MaxRows } }

\* a run of the backend process: exit status and standard output
Run(rc, stdout) == [rc |-> rc, stdout |-> stdout]

\* no backend run was made by the latest step
NoRun == Run(-1, <<>>)

\* replies to the specimen-detail prompt of extract_info16.py
DetailRuns16 ==
    {Run(1, <<>>)} \cup
    { Run(0, x) : x \in { T_one, T_two, T_empty_list, T_empty, T_truncated,
                          T_no_comment, T_prose, T_no_study_id, T_not_mapping,
                          T_wrong_shape, T_unparseable, T_features_str } }

\* replies to the specimen-count prompt of extract_info16.py
CountRuns16 == {Run(1, <<>>), Run(0, T_count_two), Run(0, T_count_none)}

\* replies to the specimen-detail prompt of extract_info23.py
DetailRuns23 ==
    {Run(1, <<>>)} \cup
    { Run(0, x) : x \in { T_one, T_two, T_empty_list, T_empty, T_truncated,
                          T_no_comment, T_prose, T_not_mapping, T_wrong_shape,
                          T_fenced, T_long_comment } }

\* replies to the count-and-names prompt of extract_info23.py
CountRuns23 == {Run(1, <<>>), Run(0, T_names_one), Run(0, T_names_int)}

(***************************************************************************)
(* extract_info16.py: the module-level script                              *)
(***************************************************************************)
\* bool(v) for a cell of the accession_number column
Truthy(v) ==
    IF IsStr(v) THEN v[2] # <<>>
    ELSE IF IsInt(v) THEN v[2] # 0
    ELSE TRUE

\* {"HGPIN": 0, ...}: a dict with every key of the list set to 0
ZeroFlags(keys) == JObj([k \in Range(keys) |-> JInt(0)])

\* the default entry of lines 168-177
Stub16_all_unknown(accession_number, line_number) ==
    JObj([k \in {S_study_id, S_specimen_name, S_gleason_score, S_gleason_pattern,
                 S_num_cores, S_percent_specimen, S_features, S_comment} |->
        CASE k = S_study_id -> accession_number
          [] k = S_features -> ZeroFlags(FeatureKeys16)
          [] OTHER          -> JStr(S_unknown)])

Stub16(accession_number, line_number) ==
    JObj([k \in {S_study_id, S_specimen_name, S_gleason_score, S_gleason_pattern,
                 S_num_cores, S_percent_specimen, S_features, S_comment} |->
        CASE k = S_study_id         -> IF Truthy(accession_number)
                                       THEN accession_number
                                       ELSE JStr(S_subject_ \o IntToStr(line_number))
          [] k = S_specimen_name    -> JStr(S_Specimen_Unknown)
          [] k = S_gleason_score    -> JStr(S_No_GS)
          [] k = S_gleason_pattern  -> JStr(S_No_GP)
          [] k = S_num_cores        -> JStr(S_No_C)
          [] k = S_percent_specimen -> JStr(S_unknown)
          [] k = S_features         -> ZeroFlags(FeatureKeys16)
          [] k = S_comment          -> JStr(S_No_comment)])

\* lines 166-177: None is replaced by a list holding the default entry
OrStub16(extracted_specimens, accession_number, line_number) ==
    IF IsNone(extracted_specimens)
    THEN JArr(<<Stub16(accession_number, line_number)>>)
    ELSE extracted_specimens

\* 'benign' in report_text.lower()
IsBenignReport(report_text) == Contains(Lower(report_text), S_benign)

\* lines 181-183 on one specimen: the three item assignments on a dict
SetBenign_two_fields(specimen) ==
    JObj(MapPut(MapPut(specimen[2],
        S_gleason_score, JStr(S_benign)),
        S_gleason_pattern, JStr(S_benign)))

SetBenign(specimen) ==
    JObj(MapPut(MapPut(MapPut(specimen[2],
        S_gleason_score, JStr(S_benign)),
        S_gleason_pattern, JStr(S_benign)),
        S_comment, JStr(S_benign)))

\* lines 179-183: [error, v]; item assignment on an element that is not a
\* dict raises TypeError
BenignOverride16(extracted_specimens, report_text) ==
    LET xs == extracted_specimens[2]
    IN  IF ~IsBenignReport(report_text)
        THEN [error |-> "", v |-> extracted_specimens]
        ELSE IF \E i \in DOMAIN xs : ~IsDict(xs[i])
        THEN [error |-> "TypeError", v |-> extracted_specimens]
        ELSE [error |-> "", v |-> JArr([i \in DOMAIN xs |-> SetBenign(xs[i])])]

\* line 189: max(len(report) for report in extracted_data)
MaxLen(data) ==
    CHOOSE n \in { Len(data[i][2]) : i \in DOMAIN data } :
        \A i \in DOMAIN data : Len(data[i][2]) <= n

\* the eleven headers of specimen slot i (line 193)
SlotColumns(i) == [k \in 1..11 |-> ColumnPrefixes[k] \o IntToStr(i)]

\* lines 190-193
RECURSIVE Columns(_)
Columns(max) ==
    IF max = 0 THEN << <<"S","t","u","d","y","I","D">> >> ELSE Columns(max - 1) \o SlotColumns(max)

\* specimen.get("features", {}).get(flag, 0)
FeatureCell(specimen, flag) ==
    DictGet(DictGet(specimen, S_features, JObj(EmptyMap)), flag, JInt(0))

\* lines 200-212: the eleven cells of one specimen
SpecimenCells(specimen) ==
    << DictGet(specimen, S_specimen_name, JStr(<<>>)),
       DictGet(specimen, S_gleason_score, JStr(<<>>)),
       DictGet(specimen, S_gleason_pattern, JStr(<<>>)),
       DictGet(specimen, S_num_cores, JStr(<<>>)),
       DictGet(specimen, S_percent_specimen, JStr(<<>>)),
       FeatureCell(specimen, S_HGPIN),
       FeatureCell(specimen, S_ASAP),
       FeatureCell(specimen, S_ATYP),
       FeatureCell(specimen, S_INF),
       FeatureCell(specimen, S_ADC),
       DictGet(specimen, S_comment, JStr(<<>>)) >>

\* line 214: [""] * 11
EmptyCells_ten == [k \in 1..10 |-> JStr(<<>>)]

EmptyCells == [k \in 1..11 |-> JStr(<<>>)]

\* the exception lines 199-212 raise on one specimen, or ""
SpecimenError(specimen) ==
    IF ~IsDict(specimen) THEN "AttributeError"
    ELSE IF ~IsDict(DictGet(specimen, S_features, JObj(EmptyMap))) THEN "AttributeError"
    ELSE ""

\* the exception line 196 raises, or ""
StudyIdError(report_data) ==
    IF report_data[2] = <<>> THEN "IndexError"
    ELSE IF ~IsDict(report_data[2][1]) THEN "TypeError"
    ELSE IF S_study_id \notin DOMAIN report_data[2][1][2] THEN "KeyError"
    ELSE ""

\* lines 197-214: the cells of the slots 1..max
RECURSIVE SlotCells(_, _)
SlotCells(report_data, max) ==
    IF max = 0 THEN <<>>
    ELSE SlotCells(report_data, max - 1) \o
         (IF max <= Len(report_data[2])
          THEN SpecimenCells(report_data[2][max])
          ELSE EmptyCells)

\* lines 196-214 for one report: [error, row]
FlattenRow(report_data, max) ==
    LET xs   == report_data[2]
        bad  == { i \in 1..max : i <= Len(xs) /\ SpecimenError(xs[i]) # "" }
    IN  IF StudyIdError(report_data) # ""
        THEN [error |-> StudyIdError(report_data), row |-> <<>>]
        ELSE IF bad # {}
        THEN [error |-> SpecimenError(xs[Min(bad)]), row |-> <<>>]
        ELSE [error |-> "", row |-> <<xs[1][2][S_study_id]>> \o SlotCells(report_data, max)]

\* the flatten loop of lines 195-215: [error, rows], the rows built before
\* the first report that raises
FlattenAll(data, max) ==
    LET bad  == { k \in DOMAIN data : FlattenRow(data[k], max).error # "" }
        upto == IF bad = {} THEN Len(data) ELSE Min(bad) - 1
    IN  [error |-> IF bad = {} THEN "" ELSE FlattenRow(data[Min(bad)], max).error,
         rows  |-> [k \in 1..upto |-> FlattenRow(data[k], max).row]]

(***************************************************************************)
(* extract_info23.py: main                                                 *)
(***************************************************************************)
\* the default entry of lines 173-182
Stub23(accession_number) ==
    JObj([k \in {S_study_id, S_specimen_name, S_gleason_score, S_gleason_pattern,
                 S_num_cores, S_percent_specimen, S_features, S_comment} |->
        CASE k = S_study_id         -> accession_number
          [] k = S_specimen_name    -> JStr(S_Specimen_Unknown)
          [] k = S_gleason_score    -> JStr(S_unknown)
          [] k = S_gleason_pattern  -> JStr(S_unknown)
          [] k = S_num_cores        -> JStr(S_unknown)
          [] k = S_percent_specimen -> JStr(S_unknown)
          [] k = S_features         -> ZeroFlags(FeatureKeys23)
          [] k = S_comment          -> JStr(S_unknown)])

\* whether len(v) is defined
HasLen(v) == IsList(v) \/ IsStr(v) \/ IsDict(v)

\* len(v)
PyLen(v) == IF IsDict(v) THEN Cardinality(DOMAIN v[2]) ELSE Len(v[2])

\* specimen_names[i] if i < len(specimen_names) else "Unknown Specimen", for
\* the 0-based position i; indexing a str gives the one-character str
NameAt_always_unknown(specimen_names, i) == JStr(S_Unknown_Specimen)

NameAt(specimen_names, i) ==
    IF i < PyLen(specimen_names)
    THEN IF IsList(specimen_names) THEN specimen_names[2][i + 1]
         ELSE JStr(<<specimen_names[2][i + 1]>>)
    ELSE JStr(S_Unknown_Specimen)

\* the exception lines 185-187 raise on the specimen at 0-based position i,
\* or ""
NormalizeError23(specimen, specimen_names, i) ==
    IF ~IsDict(specimen) THEN "TypeError"
    ELSE IF ~HasLen(specimen_names) THEN "TypeError"
    ELSE IF IsDict(specimen_names) /\ i < PyLen(specimen_names) THEN "KeyError"
    ELSE IF S_comment \notin DOMAIN specimen[2] THEN "KeyError"
    ELSE IF ~(IsStr(specimen[2][S_comment]) \/ IsList(specimen[2][S_comment]))
         THEN "TypeError"
    ELSE ""

\* lines 185-187 on the specimen at 0-based position i
NormalizeOne23_uncapped(specimen, accession_number, specimen_names, i) ==
    JObj(MapPut(MapPut(specimen[2],
            S_study_id, accession_number),
            S_specimen_name, NameAt(specimen_names, i)))

NormalizeOne23(specimen, accession_number, specimen_names, i) ==
    LET c == specimen[2][S_comment]
    IN  JObj(MapPut(MapPut(MapPut(specimen[2],
            S_study_id, accession_number),
            S_specimen_name, NameAt(specimen_names, i)),
            S_comment, <<c[1], Slice(c[2], 1, CommentCap)>>))

\* lines 171-187: [error, v], v the list that is appended to extracted_data
Normalize23(extracted_specimens, accession_number, specimen_names) ==
    IF IsNone(extracted_specimens)
    THEN [error |-> "", v |-> <<Stub23(accession_number)>>]
    ELSE LET xs  == extracted_specimens[2]
             bad == { i \in DOMAIN xs :
                        NormalizeError23(xs[i], specimen_names, i - 1) # "" }
         IN  IF bad # {}
             THEN [error |-> NormalizeError23(xs[Min(bad)], specimen_names, Min(bad) - 1),
                   v |-> <<>>]
             ELSE [error |-> "",
                   v |-> [i \in DOMAIN xs |->
                            NormalizeOne23(xs[i], accession_number, specimen_names, i - 1)]]

(***************************************************************************)
(* State                                                                   *)
(***************************************************************************)
VARIABLES
    script,               \* "v16": extract_info16.py, "v23": extract_info23.py
    input,                \* input.csv as found on disk
    pc,                   \* where the script is
    error,                \* the uncaught exception that ended the script
    index,                \* 1-based number of the row being processed
    run,                  \* the backend run made by the latest step, if any
    number_of_specimens,
    specimen_names,
    extracted_data,
    max_specimens,
    columns,
    flattened_data,
    output,               \* the output file
    calls,                \* the backend invocations made so far
    fn, arg, res          \* a function applied on its own: name, input, result

vars == << script, input, pc, error, index, run, number_of_specimens,
           specimen_names, extracted_data, max_specimens, columns,
           flattened_data, output, calls, fn, arg, res >>

locals == << number_of_specimens, specimen_names >>
table  == << max_specimens, columns, flattened_data >>
pure   == << fn, arg, res >>

NoOutput == [written |-> FALSE, columns |-> <<>>, rows |-> <<>>]

Init ==
    /\ script \in {"v16", "v23"}
    /\ input \in InputFiles
    /\ pc = "start"
    /\ error = ""
    /\ index = 0
    /\ run = NoRun
    /\ number_of_specimens = JInt(0)
    /\ specimen_names = JArr(<<>>)
    /\ extracted_data = <<>>
    /\ max_specimens = 0
    /\ columns = <<>>
    /\ flattened_data = <<>>
    /\ output = NoOutput
    /\ calls = <<>>
    /\ fn = ""
    /\ arg = <<>>
    /\ res = None

\* lines 135-149 of extract_info16.py and 140-155 of extract_info23.py:
\* whether the table was read and holds both columns
InputUsable_status_only == input.status = "ok"

InputUsable ==
    /\ input.status = "ok"
    /\ "report" \in input.columns
    /\ "accession_number" \in input.columns

\* an exception nothing catches ends the script
Crash(e) == pc' = "crashed" /\ error' = e

\* calls after one subprocess.run(...) for the current row: each pass holds
\* one call and no loop around it
Invoke_twice(pass) ==
    calls \o << [subject |-> index, pass |-> pass], [subject |-> index, pass |-> pass] >>

Invoke(pass) == Append(calls, [subject |-> index, pass |-> pass])

(***************************************************************************)
(* Actions of extract_info16.py                                            *)
(***************************************************************************)
\* lines 135-151: read the table, exit(1) on a configuration error
Load16 ==
    /\ script = "v16" /\ pc = "start"
    /\ IF ~InputUsable
       THEN pc' = "exit" /\ UNCHANGED << index, extracted_data >>
       ELSE /\ pc' = IF input.rows = <<>> THEN "flatten" ELSE "count"
            /\ index' = 1
            /\ extracted_data' = <<>>
    /\ run' = NoRun
    /\ UNCHANGED << script, input, error, locals, table, output, calls, pure >>

\* lines 153-162: the specimen-count pass for the current row
Count16 ==
    /\ script = "v16" /\ pc = "count"
    /\ \E r \in CountRuns16 :
        LET n == get_number_of_specimens16(r)
        IN  /\ run' = r
            /\ calls' = Invoke("count")
            /\ number_of_specimens' = JInt(IF n = 0 THEN 1 ELSE n)
    /\ pc' = "detail"
    /\ UNCHANGED << script, input, error, index, specimen_names, extracted_data,
                    table, output, pure >>

\* lines 164-185: the specimen-detail pass, the default entry, the benign
\* override and the append
Detail16 ==
    /\ script = "v16" /\ pc = "detail"
    /\ \E r \in DetailRuns16 :
        LET row == input.rows[index]
            got == OrStub16(extract_info_from_report16(r), row.accession_number, index)
            b   == BenignOverride16(got, row.report)
        IN  /\ run' = r
            /\ calls' = Invoke("detail")
            /\ IF b.error # ""
               THEN Crash(b.error) /\ UNCHANGED << index, extracted_data >>
               ELSE /\ extracted_data' = Append(extracted_data, b.v)
                    /\ index' = index + 1
                    /\ pc' = IF index = Len(input.rows) THEN "flatten" ELSE "count"
                    /\ error' = error
    /\ UNCHANGED << script, input, locals, table, output, pure >>

\* lines 188-215: the widest report, the header and the flatten loop
Flatten16 ==
    /\ script = "v16" /\ pc = "flatten"
    /\ IF extracted_data = <<>>
       THEN Crash("ValueError") /\ UNCHANGED table
       ELSE LET max == MaxLen(extracted_data)
                f   == FlattenAll(extracted_data, max)
            IN  /\ max_specimens' = max
                /\ columns' = Columns(max)
                /\ flattened_data' = f.rows
                /\ IF f.error # "" THEN Crash(f.error)
                   ELSE pc' = "write" /\ error' = error
    /\ run' = NoRun
    /\ UNCHANGED << script, input, index, locals, extracted_data, output,
                    calls, pure >>

\* lines 217-223: the frame and to_csv, whose failure is caught and printed
Write16 ==
    /\ script = "v16" /\ pc = "write"
    /\ \E ok \in BOOLEAN :
        output' = IF ok
                  THEN [written |-> TRUE, columns |-> columns, rows |-> flattened_data]
                  ELSE output
    /\ pc' = "done"
    /\ run' = NoRun
    /\ UNCHANGED << script, input, error, index, locals, extracted_data,
                    table, calls, pure >>

(***************************************************************************)
(* Actions of extract_info23.py                                            *)
(***************************************************************************)
\* lines 140-157: read the table, return on a configuration error
Load23 ==
    /\ script = "v23" /\ pc = "start"
    /\ IF ~InputUsable
       THEN pc' = "exit" /\ UNCHANGED << index, extracted_data >>
       ELSE /\ pc' = IF input.rows = <<>> THEN "write" ELSE "count"
            /\ index' = 1
            /\ extracted_data' = <<>>
    /\ run' = NoRun
    /\ UNCHANGED << script, input, error, locals, table, output, calls, pure >>

\* lines 161-166: the pass for the specimen count and names
Count23 ==
    /\ script = "v23" /\ pc = "count"
    /\ \E r \in CountRuns23 :
        LET got == get_number_of_specimens23(r)
        IN  /\ run' = r
            /\ calls' = Invoke("count")
            /\ number_of_specimens' = got[1]
            /\ specimen_names' = got[2]
    /\ pc' = "detail"
    /\ UNCHANGED << script, input, error, index, extracted_data, table, output, pure >>

\* lines 169-189: the detail pass, the default entry or the per-specimen
\* fields, and the extend
Detail23 ==
    /\ script = "v23" /\ pc = "detail"
    /\ \E r \in DetailRuns23 :
        LET row == input.rows[index]
            n   == Normalize23(extract_info_from_report23(r), row.accession_number, specimen_names)
        IN  /\ run' = r
            /\ calls' = Invoke("detail")
            /\ IF n.error # ""
               THEN Crash(n.error) /\ UNCHANGED << index, extracted_data >>
               ELSE /\ extracted_data' = extracted_data \o n.v
                    /\ index' = index + 1
                    /\ pc' = IF index = Len(input.rows) THEN "write" ELSE "count"
                    /\ error' = error
    /\ UNCHANGED << script, input, locals, table, output, pure >>

\* lines 192-193: open and json.dump, outside any try
Write23 ==
    /\ script = "v23" /\ pc = "write"
    /\ \E ok \in BOOLEAN :
        IF ok
        THEN /\ output' = [written |-> TRUE, columns |-> <<>>, rows |-> extracted_data]
             /\ pc' = "done"
             /\ error' = error
        ELSE Crash("OSError") /\ UNCHANGED output
    /\ run' = NoRun
    /\ UNCHANGED << script, input, index, locals, extracted_data, table,
                    calls, pure >>

(***************************************************************************)
(* The repair functions applied on their own                               *)
(***************************************************************************)
\* the longest text that is explored exhaustively
MaxText == 5

\* the texts a function is applied to: every text of bracket and quote
\* characters up to the length MaxText, and five replies
Texts ==
    UNION { [1..k -> {"[", "]", "{", "}", "\""}] : k \in 0..MaxText }
    \cup {T_one, T_two, T_truncated, T_prose, T_comma_brace}

\* the most lines a reply wrapped in markdown is built from
MaxLines == 3

\* the lines such a reply is built from: a fence, a fence with the language
\* tag j, a fence followed by an opening brace, a brace, a letter and the
\* empty line
ReplyLines ==
    {S_fence, S_fence \o <<"j">>, S_fence \o <<"{">>, <<"{">>, <<"j">>, <<>>}

\* every reply of up to MaxLines such lines
FencedTexts ==
    { JoinLines(ls) : ls \in UNION { [1..k -> ReplyLines] : k \in 0..MaxLines } }

InitPure ==
    /\ script = "none"
    /\ input = [status |-> "missing", columns |-> {}, rows |-> <<>>]
    /\ pc = "start"
    /\ error = ""
    /\ index = 0
    /\ run = NoRun
    /\ number_of_specimens = JInt(0)
    /\ specimen_names = JArr(<<>>)
    /\ extracted_data = <<>>
    /\ max_specimens = 0
    /\ columns = <<>>
    /\ flattened_data = <<>>
    /\ output = NoOutput
    /\ calls = <<>>
    /\ fn = ""
    /\ arg \in Texts \cup FencedTexts
    /\ res = None

\* fix_malformed_json(arg)
ApplyFix ==
    /\ fn = ""
    /\ fn' = "fix_malformed_json"
    /\ res' = fix_malformed_json(arg)
    /\ UNCHANGED << script, input, pc, error, index, run, locals, extracted_data,
                    table, output, calls, arg >>

\* extract_info_from_report(...) of extract_info16.py when the backend exits
\* with status 0 and prints arg
ApplyExtract16 ==
    /\ fn = ""
    /\ fn' = "extract_info_from_report"
    /\ res' = extract_info_from_report16(Run(0, arg))
    /\ UNCHANGED << script, input, pc, error, index, run, locals, extracted_data,
                    table, output, calls, arg >>

\* clean_json_output(arg)
ApplyClean ==
    /\ fn = ""
    /\ fn' = "clean_json_output"
    /\ res' = clean_json_output(arg)
    /\ UNCHANGED << script, input, pc, error, index, run, locals, extracted_data,
                    table, output, calls, arg >>

NextPure == ApplyFix \/ ApplyExtract16 \/ ApplyClean

SpecPure == InitPure /\ [][NextPure]_vars

Next ==
    \/ Load16 \/ Count16 \/ Detail16 \/ Flatten16 \/ Write16
    \/ Load23 \/ Count23 \/ Detail23 \/ Write23

Spec == Init /\ [][Next]_vars

\* extract_info23.py on its own
Init23 == Init /\ script = "v23"

Next23 == Load23 \/ Count23 \/ Detail23 \/ Write23

Spec23 == Init23 /\ [][Next23]_vars

(***************************************************************************)
(* Properties                                                              *)
(***************************************************************************)
\* the cell of slot i (1-based) and field k (1..11) of a table row
Cell(row, i, k) == row[1 + 11 * (i - 1) + k]

\* the report and the record list of the k-th row of the input table
ReportOf(k) == input.rows[k].report
RecordsOf(k) == extracted_data[k][2]

\* the width the table has for the batch: one identity column and eleven
\* columns for each slot of the longest record list
Width == 1 + 11 * max_specimens

\* C1: once the header exists, max_specimens is the length of the longest
\* record list of the batch, and the header, every row the flatten loop has
\* built and every row of the written table have 1 + 11 * max_specimens cells.
C1_Rectangular ==
    columns # <<>> =>
        /\ \A k \in DOMAIN extracted_data : Len(RecordsOf(k)) <= max_specimens
        /\ \E k \in DOMAIN extracted_data : Len(RecordsOf(k)) = max_specimens
        /\ Len(columns) = Width
        /\ \A k \in DOMAIN flattened_data : Len(flattened_data[k]) = Width
        /\ output.written =>
              /\ Len(output.columns) = Width
              /\ \A k \in DOMAIN output.rows : Len(output.rows[k]) = Width

\* a written table of two rows, one subject with two specimens and one with one
C1_Witness ==
    /\ script = "v16" /\ output.written
    /\ Len(output.rows) = 2
    /\ max_specimens = 2
    /\ \E k \in DOMAIN extracted_data : Len(RecordsOf(k)) = 1

\* C9: when the input table is missing, empty, unparseable or lacks one of
\* the two columns, the script never leaves the loading step except by
\* exiting: no backend call is made and the output is not written.
C9_FatalInput ==
    (\/ input.status # "ok"
     \/ "report" \notin input.columns
     \/ "accession_number" \notin input.columns)
    => /\ pc \in {"start", "exit"}
       /\ calls = <<>>
       /\ ~output.written
       /\ extracted_data = <<>>

\* the script has exited on a table that was read but lacks a column
C9_Witness ==
    /\ pc = "exit"
    /\ input.status = "ok"
    /\ input.columns = {"report"}

\* the calls of a run that has made n of them: the count pass and then the
\* detail pass of subject 1, then those of subject 2, ...
CallsInOrder(n) ==
    [j \in 1..n |-> [subject |-> (j + 1) \div 2,
                     pass    |-> IF j % 2 = 1 THEN "count" ELSE "detail"]]

\* C10: the backend calls made so far are, in order, one count call and one
\* detail call for subject 1, then for subject 2, and so on; no pass of a
\* subject appears twice, whatever its call returned, and a run that ends
\* normally has made exactly these two calls for every subject.
C10_OncePerPassInOrder ==
    /\ calls = CallsInOrder(Len(calls))
    /\ Len(calls) <= 2 * Len(input.rows)
    /\ pc \in {"flatten", "write", "done"} => Len(calls) = 2 * Len(input.rows)

\* a run over two subjects has ended normally after a failed backend call
C10_Witness ==
    /\ pc = "done"
    /\ Len(calls) = 4
    /\ script = "v16"
    /\ \E k \in DOMAIN extracted_data :
          RecordsOf(k)[1][2][S_specimen_name] = JStr(S_Specimen_Unknown)

\* the state right after the detail pass of a subject whose records were
\* appended
AfterDetail ==
    /\ calls # <<>>
    /\ calls[Len(calls)].pass = "detail"
    /\ run # NoRun
    /\ pc # "crashed"

\* gleason_score, gleason_pattern and comment of a record all read "benign"
AllBenign(specimen) ==
    /\ specimen[2][S_gleason_score] = JStr(S_benign)
    /\ specimen[2][S_gleason_pattern] = JStr(S_benign)
    /\ specimen[2][S_comment] = JStr(S_benign)

\* the three cells of slot i of a row hold what the record holds
CellsAsRecorded(row, i, specimen) ==
    /\ Cell(row, i, 2) = DictGet(specimen, S_gleason_score, JStr(<<>>))
    /\ Cell(row, i, 3) = DictGet(specimen, S_gleason_pattern, JStr(<<>>))
    /\ Cell(row, i, 11) = DictGet(specimen, S_comment, JStr(<<>>))

\* C5: in extract_info16.py every record of a subject whose report holds
\* "benign" in any letter case has gleason_score, gleason_pattern and comment
\* equal to "benign", in the batch and in the table rows, whatever the reply
\* held; the records of a subject whose report lacks the word are the ones
\* extraction returned (or the default entry), and the rows hold their values.
C5_BenignOverride ==
    script = "v16" =>
        /\ \A k \in DOMAIN extracted_data :
              ReportOf(k) = R_benign =>
                  \A i \in DOMAIN RecordsOf(k) : AllBenign(RecordsOf(k)[i])
        /\ \A k \in DOMAIN flattened_data :
              \A i \in DOMAIN RecordsOf(k) :
                  /\ CellsAsRecorded(flattened_data[k], i, RecordsOf(k)[i])
                  /\ ReportOf(k) = R_benign =>
                        /\ Cell(flattened_data[k], i, 2) = JStr(S_benign)
                        /\ Cell(flattened_data[k], i, 3) = JStr(S_benign)
                        /\ Cell(flattened_data[k], i, 11) = JStr(S_benign)
        /\ output.written => output.rows = flattened_data
        /\ (AfterDetail /\ ReportOf(Len(extracted_data)) = R_cancer) =>
              extracted_data[Len(extracted_data)] =
                  OrStub16(extract_info_from_report16(run),
                           input.rows[Len(extracted_data)].accession_number,
                           Len(extracted_data))

\* a written table with a two-specimen subject whose report reads BENIGN and
\* a subject without the word whose reply gave a gleason_score of "7"
C5_Witness ==
    /\ script = "v16" /\ output.written
    /\ \E k \in DOMAIN extracted_data :
          ReportOf(k) = R_benign /\ Len(RecordsOf(k)) = 2
    /\ \E k \in DOMAIN extracted_data :
          /\ ReportOf(k) = R_cancer
          /\ Cell(output.rows[k], 1, 2) = JStr(<<"7">>)

\* replies after which extraction returns None: the backend exited with an
\* error, printed nothing, printed JSON that cannot be parsed, or printed an
\* object without a list under "specimens"
FailedReply16(r) ==
    r.rc # 0 \/ r.stdout \in {T_empty, T_truncated, T_unparseable, T_wrong_shape}

FailedReply23(r) ==
    r.rc # 0 \/ r.stdout \in {T_empty, T_truncated, T_prose, T_wrong_shape}

FlagsZero(keys) == JObj([k \in keys |-> JInt(0)])

\* the default entry of the table script as it stands in the batch
StubRecord16(study_id, benign) ==
    JObj(  (S_study_id :> study_id)
        @@ (S_specimen_name :> JStr(S_Specimen_Unknown))
        @@ (S_gleason_score :> JStr(IF benign THEN S_benign ELSE S_No_GS))
        @@ (S_gleason_pattern :> JStr(IF benign THEN S_benign ELSE S_No_GP))
        @@ (S_num_cores :> JStr(S_No_C))
        @@ (S_percent_specimen :> JStr(S_unknown))
        @@ (S_features :> FlagsZero({S_HGPIN, S_ASAP, S_ATYP, S_INF, S_ADC}))
        @@ (S_comment :> JStr(IF benign THEN S_benign ELSE S_No_comment)) )

\* the default entry of the JSON script
StubRecord23(study_id) ==
    JObj(  (S_study_id :> study_id)
        @@ (S_specimen_name :> JStr(S_Specimen_Unknown))
        @@ (S_gleason_score :> JStr(S_unknown))
        @@ (S_gleason_pattern :> JStr(S_unknown))
        @@ (S_num_cores :> JStr(S_unknown))
        @@ (S_percent_specimen :> JStr(S_unknown))
        @@ (S_features :> FlagsZero({S_HGPIN, S_ASAP, S_ATYP, S_INF, S_ADC,
                                     S_PNI, S_Benign}))
        @@ (S_comment :> JStr(S_unknown)) )

\* the table row of a subject whose only record is the default entry
StubRow16(study_id, benign, max) ==
    << study_id,
       JStr(S_Specimen_Unknown),
       JStr(IF benign THEN S_benign ELSE S_No_GS),
       JStr(IF benign THEN S_benign ELSE S_No_GP),
       JStr(S_No_C),
       JStr(S_unknown),
       JInt(0), JInt(0), JInt(0), JInt(0), JInt(0),
       JStr(IF benign THEN S_benign ELSE S_No_comment) >>
    \o [c \in 1..(11 * (max - 1)) |-> JStr(<<>>)]

S_no_data == <<"n","o"," ","d","a","t","a">>

\* the record the latest detail pass appended last
LastRecord ==
    IF script = "v16"
    THEN RecordsOf(Len(extracted_data))[Len(RecordsOf(Len(extracted_data)))]
    ELSE extracted_data[Len(extracted_data)]

BlockOf(specimen) ==
    << DictGet(specimen, S_specimen_name, JStr(<<>>)),
       DictGet(specimen, S_gleason_score, JStr(<<>>)),
       DictGet(specimen, S_gleason_pattern, JStr(<<>>)),
       DictGet(specimen, S_num_cores, JStr(<<>>)),
       DictGet(specimen, S_percent_specimen, JStr(<<>>)) >>
    \o [f \in 1..5 |->
          DictGet(DictGet(specimen, S_features, JObj(EmptyMap)),
                  <<S_HGPIN, S_ASAP, S_ATYP, S_INF, S_ADC>>[f], JInt(0))]
    \o << DictGet(specimen, S_comment, JStr(<<>>)) >>

\* C2: once extract_info16.py is past its flatten loop, or has ended, the
\* table holds one row for every subject of the input; block k of the row
\* holds the subject's k-th record and every later block eleven empty strings.
C2_OneRowPerSubject ==
    (script = "v16" /\ input.rows # <<>> /\ pc \in {"write", "done", "crashed"})
    => /\ Len(flattened_data) = Len(input.rows)
       /\ \A k \in DOMAIN flattened_data :
             \A i \in 1..max_specimens :
                 SubSeq(flattened_data[k], 2 + 11 * (i - 1), 1 + 11 * i) =
                     IF i <= Len(RecordsOf(k))
                     THEN BlockOf(RecordsOf(k)[i])
                     ELSE [c \in 1..11 |-> JStr(<<>>)]

\* C3: in extract_info16.py every subject of the batch has at least one
\* record.
C3_AtLeastOneRecord ==
    script = "v16" =>
        \A k \in DOMAIN extracted_data : Len(RecordsOf(k)) >= 1

\* C4: whatever the backend replied, a run over a table with subjects is
\* not ended by an exception of the per-subject processing or of the flatten
\* loop (a failure to write the output file is none of these).
C4_NeverAborted ==
    (pc = "crashed" /\ input.rows # <<>>) => error = "OSError"

\* C6: applied to a text that is strict JSON, fix_malformed_json returns the
\* value json.loads returns for the text, and extract_info_from_report of
\* extract_info16.py returns the list under "specimens" of that value.
C6_RepairKeepsValidJson ==
    /\ (fn = "fix_malformed_json" /\ json_loads(arg).ok)
          => res = json_loads(arg).v
    /\ (/\ fn = "extract_info_from_report"
        /\ json_loads(arg).ok
        /\ IsDict(json_loads(arg).v)
        /\ S_specimens \in DOMAIN json_loads(arg).v[2]
        /\ IsList(json_loads(arg).v[2][S_specimens]))
          => res = json_loads(arg).v[2][S_specimens]

\* C7: for the reply {"specimens": [{"gleason_score": "7" the repair makes
\* the parse succeed: fix_malformed_json returns the object and
\* extract_info_from_report returns one specimen whose gleason_score is "7".
C7_TruncationRepaired ==
    LET specimen == JObj(S_gleason_score :> JStr(<<"7">>))
    IN  /\ (fn = "fix_malformed_json" /\ arg = T_truncated)
              => res = JObj(S_specimens :> JArr(<<specimen>>))
        /\ (fn = "extract_info_from_report" /\ arg = T_truncated)
              => res = JArr(<<specimen>>)

\* a line made of the fence and, optionally, a language tag
IsFenceLine(l) ==
    /\ StartsWith(l, S_fence)
    /\ \A i \in 4..Len(l) : l[i] \in WordChars

\* the lines of the trimmed text s without a first line that is a fence line
\* and without a last line that is a bare fence
WithoutFences(s) ==
    LET lines == SplitLines(Strip(s))
        first == IF lines # <<>> /\ IsFenceLine(lines[1]) THEN 2 ELSE 1
        last  == IF lines # <<>> /\ lines[Len(lines)] = S_fence
                 THEN Len(lines) - 1 ELSE Len(lines)
    IN  Slice(lines, first, last)

\* C11: for every input string the sanitizer returns the trimmed input less
\* its first line when that line is a fence marker and less its last line
\* when that line is a bare fence marker, each rule on its own; no other line
\* goes, and a text without fence markers comes back as it was (trimmed).
C11_FenceStripping ==
    fn = "clean_json_output" => res = Strip(JoinLines(WithoutFences(arg)))

\* the string fields of a record, and the table column (1..11) of each
StringFields ==
    <<S_gleason_score, S_gleason_pattern, S_num_cores, S_percent_specimen, S_comment>>

StringColumns == <<2, 3, 4, 5, 11>>

\* whether the record holds the flag
HasFlag(specimen, flag) ==
    /\ S_features \in DOMAIN specimen[2]
    /\ flag \in DOMAIN specimen[2][S_features][2]

\* slot i of a table row reads "unknown" for each string field the record
\* lacks and 0 for each flag it lacks
DefaultsInRow(row, i, specimen) ==
    /\ \A f \in 1..5 :
          StringFields[f] \notin DOMAIN specimen[2]
              => Cell(row, i, StringColumns[f]) = JStr(S_unknown)
    /\ \A f \in 1..5 :
          ~HasFlag(specimen, FeatureKeys16[f]) => Cell(row, i, 5 + f) = JInt(0)

\* the finalized record holds "unknown" for each string field the parsed
\* element lacks and 0 for each flag it lacks
DefaultsInRecord(record, specimen) ==
    /\ \A f \in 1..5 :
          StringFields[f] \notin DOMAIN specimen[2]
              => DictGet(record, StringFields[f], None) = JStr(S_unknown)
    /\ \A f \in 1..7 :
          ~HasFlag(specimen, FeatureKeys23[f])
              => DictGet(DictGet(record, S_features, JObj(EmptyMap)),
                         FeatureKeys23[f], None) = JInt(0)

\* the value extract_info_from_report of extract_info23.py returned in the
\* detail pass that has just run
Parsed23 == extract_info_from_report23(run)

\* the detail pass of extract_info23.py has just run
DetailRan23 ==
    /\ script = "v23"
    /\ calls # <<>>
    /\ calls[Len(calls)].pass = "detail"

\* the finalized record of the i-th specimen of the list xs that the detail
\* pass returned
Finalized(xs, i) == extracted_data[Len(extracted_data) - Len(xs) + i]

\* when p is a list of mappings, the run goes on and every record carries
\* the defaults
FilledAll(p) ==
    (~IsNone(p) /\ \A i \in DOMAIN p[2] : IsDict(p[2][i]))
    => /\ pc # "crashed"
       /\ \A i \in DOMAIN p[2] : DefaultsInRecord(Finalized(p[2], i), p[2][i])

\* C12: every expected field a parsed specimen lacks reads "unknown" (string
\* fields) or 0 (feature flags) in the table row of extract_info16.py and in
\* the finalized record of extract_info23.py, and a missing field raises
\* nothing.
C12_DefaultFilling ==
    /\ script = "v16" =>
          \A k \in DOMAIN flattened_data :
              \A i \in DOMAIN RecordsOf(k) :
                  DefaultsInRow(flattened_data[k], i, RecordsOf(k)[i])
    /\ (DetailRan23 /\ IsList(specimen_names)) => FilledAll(Parsed23)

\* the detail pass of extract_info23.py has just run and the records of the
\* subject were added to the batch
Extracted23 == script = "v23" /\ AfterDetail

\* text t is the first CommentCap items of text c, or all of c when c is no
\* longer than that
IsCappedPrefix(t, c) ==
    /\ Len(t) = (IF Len(c) <= CommentCap THEN Len(c) ELSE CommentCap)
    /\ \A j \in 1..Len(t) : t[j] = c[j]

\* when p is a list, the comment of every finalized specimen is the capped
\* prefix of the comment of the specimen in p
CappedAll(p) ==
    ~IsNone(p) =>
        \A i \in DOMAIN p[2] :
            IsCappedPrefix(Finalized(p[2], i)[2][S_comment][2],
                           p[2][i][2][S_comment][2])

NamedAll(p) ==
    ~IsNone(p) =>
        \A i \in DOMAIN p[2] :
            /\ IsList(specimen_names)
            /\ Finalized(p[2], i)[2][S_specimen_name] =
                  IF i <= Len(specimen_names[2])
                  THEN specimen_names[2][i]
                  ELSE JStr(S_Unknown_Specimen)

\* C14: in extract_info23.py the i-th finalized specimen of a subject is
\* named by the i-th entry of the specimen_names list of the names pass when
\* the list has one, and "Unknown Specimen" otherwise, the empty list of a
\* failed names pass included.
C14_NamesByPosition ==
    Extracted23 => NamedAll(Parsed23)

\* two specimens were extracted and the names pass gave one name: the first
\* specimen has it, whatever name the reply gave, the second has none
C14_Witness ==
    /\ Extracted23
    /\ run.stdout = T_two
    /\ specimen_names = JArr(<<JStr(<<"R","i","g","h","t"," ","A","p","e","x">>)>>)
    /\ extracted_data[Len(extracted_data) - 1][2][S_specimen_name] = specimen_names[2][1]
    /\ extracted_data[Len(extracted_data)][2][S_specimen_name] = JStr(S_Unknown_Specimen)

\* the identifier of the k-th subject: its accession number, or subject_<k>
\* when the cell is empty
SubjectId(k) ==
    IF input.rows[k].accession_number = NaN
    THEN JStr(S_subject_ \o IntToStr(k))
    ELSE input.rows[k].accession_number

\* C15: in extract_info16.py the first cell of the row of every subject is
\* the subject's own identifier, whatever the backend replied.
C15_IdentityCell ==
    script = "v16" =>
        \A k \in DOMAIN flattened_data : flattened_data[k][1] = SubjectId(k)

=============================================================================
